---- MODULE Spec2Model ----
(***************************************************************************)
(* A model of the content pipeline of aurorascharff.no: the speaking       *)
(* collection, the event sorter, the speaking page script, the speaking    *)
(* RSS endpoint and the Open Graph image templates.                        *)
(***************************************************************************)
EXTENDS Integers, Sequences, FiniteSets, TLC

VARIABLES
    route,           \* the route this request or build step renders
    collection,      \* what getCollection("speaking") yields: a sequence of entries
    heap,            \* the arrays the speaking page script holds, by reference
    events,          \* page: const events          (a reference, 0 before assignment)
    sortedEvents,    \* page: const sortedEvents    (a reference, 0 before assignment)
    pastEvents,      \* page: const pastEvents      (a reference, 0 before assignment)
    upcomingEvents,  \* page: const upcomingEvents  (a reference, 0 before assignment)
    pagePc,          \* page: position in the script
    pageError,       \* page: the error the build ended with, <<>> when none
    feedPc,          \* feed: position in GET
    feedEvents,      \* feed: const events
    feedResponse,    \* feed: what GET resolved or rejected with
    ogEnv,           \* og: the default locale and time zone of the rendering process
    ogLast,          \* og: the last render (template, input, output) in a sequence, <<>> before
    pageHtml,        \* page: the Upcoming and Previous lists the template rendered
    docTheme,        \* document: the data-theme attribute of <html>, Undefined when absent
    docChanges,      \* document: writes of data-theme so far
    coffeeView,      \* BuyMeACoffee: what its last render returned, <<>> for null
    certView,        \* CertVisual: what its last render returned
    coffeePc,        \* BuyMeACoffee: "rendered" (effect not yet run), "mounted", "unmounted"
    coffeeTheme,     \* BuyMeACoffee: the theme state
    coffeeObserver,  \* BuyMeACoffee: whether its MutationObserver is observing
    coffeePending,   \* BuyMeACoffee: whether mutation records wait for the observer's callback
    coffeeSetCalls,  \* BuyMeACoffee: calls of setTheme so far
    coffeeObserveCalls, \* BuyMeACoffee: calls of observer.observe so far
    certOpen,        \* CertVisual: the open state
    certClicks,      \* CertVisual: clicks on the badge button so far
    eventCard,       \* Event: the last card rendered (version, props, output), <<>> before
    sorterCalls      \* calls of getSortedEvents so far, by the page and by the feed

vars == <<route, collection, heap, events, sortedEvents, pastEvents, upcomingEvents,
          pagePc, pageError, feedPc, feedEvents, feedResponse, ogEnv, ogLast,
          pageHtml, docTheme, docChanges, coffeeView, certView, coffeePc, coffeeTheme, coffeeObserver, coffeePending,
          coffeeSetCalls, coffeeObserveCalls, certOpen, certClicks, eventCard,
          sorterCalls>>

pageVars == <<heap, events, sortedEvents, pastEvents, upcomingEvents, pagePc, pageError>>
feedVars == <<feedPc, feedEvents, feedResponse>>
ogVars == <<ogEnv, ogLast>>
coffeeVars == <<docTheme, docChanges, coffeePc, coffeeTheme, coffeeView, coffeeObserver,
                coffeePending, coffeeSetCalls, coffeeObserveCalls>>
certVars == <<certOpen, certClicks, certView>>
islandVars == <<coffeeVars, certVars, eventCard>>

(* A request renders its route; a static build renders every route *)
Serves(r) == route = r \/ route = "build"

--------------------------------------------------------------------------
(* Bounds of the model *)

MaxEvents == 4
MaxFeedEntries == 2
MaxBuildEvents == 2
MaxThemeChanges == 3
MaxClicks == 4

--------------------------------------------------------------------------
(* Optional frontmatter fields: undefined, or a string *)

Undefined == <<>>
Some(s) == <<s>>

--------------------------------------------------------------------------
(* Frontmatter dates.  A well-formed date is a time value; a date such as  *)
(* 2025-11-28T000:00Z is malformed; a file may carry no date at all.       *)

Times == {1, 2, 3}
ValidDate(t) == [kind |-> "date", time |-> t]
MalformedDate == [kind |-> "malformed", time |-> 0]
MissingDate == [kind |-> "missing", time |-> 0]
Dates == {ValidDate(t) : t \in Times} \cup {MalformedDate, MissingDate}
IsValidDate(d) == d.kind = "date"

(* A speaking entry: its id (the position of its file in the store) and its data *)
SpeakingEntry(i, d, c) ==
    [id |-> i, organizer |-> "React Conf", date |-> d, name |-> "Talk " \o ToString(i),
     completed |-> c, address |-> Some("Oslo"), link |-> Undefined,
     websiteLink |-> Some("https://conf.dev"), description |-> Some("About forms")]

(* The store of n files whose dates and completed flags are those of f *)
SpeakingStore(n, f) == [i \in 1..n |-> SpeakingEntry(i, f[i][1], f[i][2])]

--------------------------------------------------------------------------
(* Array helpers *)

Reverse(s) == [i \in 1..Len(s) |-> s[Len(s) + 1 - i]]
Ids(s) == [i \in 1..Len(s) |-> s[i].id]
Range(s) == {s[i] : i \in 1..Len(s)}

--------------------------------------------------------------------------
(* The event sorter, @utils/getSortedEvents: a new sequence ordered by     *)
(* date descending, ties in input order; an entry without a well-formed    *)
(* date ends the sort with an error that names the entry.                  *)

RECURSIVE InsertByDate(_, _)
InsertByDate(e, s) ==
    IF s = <<>> THEN <<e>>
    ELSE IF Head(s).date.time >= e.date.time
         THEN <<Head(s)>> \o InsertByDate(e, Tail(s))
         ELSE <<e>> \o s

RECURSIVE SortByDateDesc(_)
SortByDateDesc(s) ==
    IF s = <<>> THEN <<>>
    ELSE InsertByDate(s[Len(s)], SortByDateDesc(SubSeq(s, 1, Len(s) - 1)))

FirstInvalid(s) ==
    CHOOSE i \in 1..Len(s) :
        /\ ~IsValidDate(s[i].date)
        /\ \A j \in 1..(i - 1) : IsValidDate(s[j].date)

getSortedEvents(es) ==
    IF \E i \in 1..Len(es) : ~IsValidDate(es[i].date)
    THEN [ok |-> FALSE, value |-> <<>>,
          error |-> [name |-> "InvalidDate", entry |-> es[FirstInvalid(es)].id,
                     date |-> es[FirstInvalid(es)].date.kind]]
    ELSE [ok |-> TRUE, value |-> SortByDateDesc(es), error |-> <<>>]

--------------------------------------------------------------------------
(* Arrays held by reference.  A heap is a sequence of arrays and a         *)
(* reference is an index into it; an operation returns the heap after it   *)
(* and the reference it evaluates to.                                      *)

Alloc(h, arr) == [heap |-> Append(h, arr), ref |-> Len(h) + 1]

(* Array.prototype.filter: a new array of the elements that pass the test *)
(* (given as the set of elements passing it), the receiver untouched       *)
ArrayFilter(h, ref, passing) == Alloc(h, SelectSeq(h[ref], LAMBDA e : e \in passing))

(* Array.prototype.reverse: reverses the receiver in place and returns it *)
ArrayReverse(h, ref) == [heap |-> [h EXCEPT ![ref] = Reverse(h[ref])], ref |-> ref]

(* A call of getSortedEvents on an array: the result is a new array *)
CallGetSortedEvents(h, ref) ==
    LET r == getSortedEvents(h[ref])
    IN  IF r.ok
        THEN [ok |-> TRUE, error |-> <<>>] @@ Alloc(h, r.value)
        ELSE [ok |-> FALSE, error |-> r.error, heap |-> h, ref |-> 0]

IsCompleted(event) == event.completed
IsNotCompleted(event) == ~event.completed
CompletedOf(arr) == {e \in Range(arr) : IsCompleted(e)}
NotCompletedOf(arr) == {e \in Range(arr) : IsNotCompleted(e)}

--------------------------------------------------------------------------
(* The speaking page script *)

(* const events = await getCollection("speaking") *)
Page_events(h, store) == Alloc(h, store)

(* Faulty variant: the sorter's result is taken in ascending order *)
Page_sortedEvents_Ascending(h, ev) ==
    LET r == CallGetSortedEvents(h, ev)
    IN  IF r.ok THEN [r EXCEPT !.heap[r.ref] = Reverse(@)] ELSE r

(* Faulty variant: the events are reversed before they are sorted, so ties swap *)
Page_sortedEvents_TiesReversed(h, ev) ==
    LET r == CallGetSortedEvents(h, ev)
    IN  IF r.ok THEN [r EXCEPT !.heap[r.ref] = SortByDateDesc(Reverse(h[ev]))] ELSE r

(* Faulty variant: the sorter is given the array created last in the      *)
(* process, a slot every invocation writes, instead of the page's events *)
Page_sortedEvents_LastArray(h, ev) == CallGetSortedEvents(h, Len(h))

(* const sortedEvents = getSortedEvents(events) *)
Page_sortedEvents(h, ev) == CallGetSortedEvents(h, ev)

(* Faulty variant: the past list is reversed as the upcoming list is *)
Page_pastEvents_Reversed(h, sorted) ==
    LET f == ArrayFilter(h, sorted, CompletedOf(h[sorted]))
    IN  ArrayReverse(f.heap, f.ref)

(* const pastEvents = sortedEvents.filter(event => event.data.completed) *)
Page_pastEvents(h, sorted) == ArrayFilter(h, sorted, CompletedOf(h[sorted]))

(* Faulty variant: the negation of the upcoming filter is lost *)
Page_upcomingEvents_NoNegation(h, sorted) ==
    LET f == ArrayFilter(h, sorted, CompletedOf(h[sorted]))
    IN  ArrayReverse(f.heap, f.ref)

(* Faulty variant: the upcoming list is not reversed *)
Page_upcomingEvents_NoReverse(h, sorted) == ArrayFilter(h, sorted, NotCompletedOf(h[sorted]))

(* Faulty variant: reverse() is applied to sortedEvents itself, before the filter *)
Page_upcomingEvents_ReverseFirst(h, sorted) ==
    LET r == ArrayReverse(h, sorted)
    IN  ArrayFilter(r.heap, r.ref, NotCompletedOf(r.heap[r.ref]))

(* const upcomingEvents = sortedEvents.filter(event => !event.data.completed).reverse() *)
Page_upcomingEvents(h, sorted) ==
    LET f == ArrayFilter(h, sorted, NotCompletedOf(h[sorted]))
    IN  ArrayReverse(f.heap, f.ref)

PageLoad ==
    /\ Serves("speaking")
    /\ pagePc = "start"
    /\ LET r == Page_events(heap, collection)
       IN  heap' = r.heap /\ events' = r.ref
    /\ pagePc' = "loaded"
    /\ UNCHANGED <<collection, sortedEvents, pastEvents, upcomingEvents, pageError>>
    /\ UNCHANGED <<route, feedVars, ogVars, pageHtml, islandVars, sorterCalls>>

PageSort ==
    /\ pagePc = "loaded"
    /\ LET r == Page_sortedEvents(heap, events)
       IN  /\ heap' = r.heap
           /\ sortedEvents' = r.ref
           /\ pagePc' = IF r.ok THEN "sorted" ELSE "error"
           /\ pageError' = r.error
    /\ sorterCalls' = [sorterCalls EXCEPT !.page = @ + 1]
    /\ UNCHANGED <<collection, events, pastEvents, upcomingEvents>>
    /\ UNCHANGED <<route, feedVars, ogVars, pageHtml, islandVars>>

PagePast ==
    /\ pagePc = "sorted"
    /\ LET r == Page_pastEvents(heap, sortedEvents)
       IN  heap' = r.heap /\ pastEvents' = r.ref
    /\ pagePc' = "past"
    /\ UNCHANGED <<collection, events, sortedEvents, upcomingEvents, pageError>>
    /\ UNCHANGED <<route, feedVars, ogVars, pageHtml, islandVars, sorterCalls>>

PageUpcoming ==
    /\ pagePc = "past"
    /\ LET r == Page_upcomingEvents(heap, sortedEvents)
       IN  heap' = r.heap /\ upcomingEvents' = r.ref
    /\ pagePc' = "done"
    /\ UNCHANGED <<collection, events, sortedEvents, pastEvents, pageError>>
    /\ UNCHANGED <<route, feedVars, ogVars, pageHtml, islandVars, sorterCalls>>

(* ({ data }) => <Event frontmatter={data} /> : the card gets the entry's data *)
DataOf(e) ==
    [organizer |-> e.organizer, date |-> e.date, name |-> e.name,
     completed |-> e.completed, address |-> e.address, link |-> e.link,
     websiteLink |-> e.websiteLink, description |-> e.description]

EventList(arr) == [i \in 1..Len(arr) |-> DataOf(arr[i])]

(* Faulty variant: the Upcoming list is put in ascending date order with    *)
(* events of one day left in the sorter's order                             *)
Page_template_TiesInSorterOrder(h, upcoming, past) ==
    LET inSorterOrder == Reverse(h[upcoming])
        OnDay(t) == SelectSeq(inSorterOrder, LAMBDA e : e.date.time = t)
    IN  [upcoming |-> EventList(OnDay(1) \o OnDay(2) \o OnDay(3)),
         previous |-> EventList(h[past])]

(* The two lists of the template: Upcoming from upcomingEvents, Previous from pastEvents *)
Page_template(h, upcoming, past) ==
    [upcoming |-> EventList(h[upcoming]), previous |-> EventList(h[past])]

PageTemplate ==
    /\ pagePc = "done"
    /\ pageHtml' = Page_template(heap, upcomingEvents, pastEvents)
    /\ pagePc' = "rendered"
    /\ UNCHANGED <<collection, heap, events, sortedEvents, pastEvents, upcomingEvents, pageError>>
    /\ UNCHANGED <<route, feedVars, ogVars, islandVars, sorterCalls>>

--------------------------------------------------------------------------
(* The speaking RSS endpoint *)

(* a ?? b *)
Nullish(a, b) == IF a # Undefined THEN a ELSE b

(* Boolean(x) of an optional string: undefined and "" are falsy *)
Boolean(x) == x # Undefined /\ x # Some("")

(* Array.prototype.join over defined strings *)
RECURSIVE Join(_, _)
Join(parts, sep) ==
    IF parts = <<>> THEN ""
    ELSE IF Len(parts) = 1 THEN parts[1][1]
    ELSE parts[1][1] \o sep \o Join(Tail(parts), sep)

(* new Date(value): the time value of a well-formed date, Invalid Date otherwise *)
NewDate(d) ==
    IF IsValidDate(d) THEN [valid |-> TRUE, time |-> d.time]
    ELSE [valid |-> FALSE, time |-> 0]

(* Faulty variant: link || websiteLink || "speaking/", which skips an empty link *)
GET_item_OrLink(data) ==
    [link |-> IF Boolean(data.link) THEN data.link[1]
              ELSE IF Boolean(data.websiteLink) THEN data.websiteLink[1]
              ELSE "speaking/",
     title |-> data.name \o " @ " \o data.organizer,
     description |-> Join(SelectSeq(<<data.description, data.address>>, Boolean), " | "),
     pubDate |-> NewDate(data.date)]

(* Faulty variant: the parts are joined without filter(Boolean); join writes *)
(* an undefined element as the empty string                                  *)
GET_item_JoinAll(data) ==
    [link |-> Nullish(data.link, Nullish(data.websiteLink, Some("speaking/")))[1],
     title |-> data.name \o " @ " \o data.organizer,
     description |-> Join(<<Nullish(data.description, Some("")),
                            Nullish(data.address, Some(""))>>, " | "),
     pubDate |-> NewDate(data.date)]

(* One element of items: sortedEvents.map(({ data }) => ({ ... })) *)
GET_item(data) ==
    [link |-> Nullish(data.link, Nullish(data.websiteLink, Some("speaking/")))[1],
     title |-> data.name \o " @ " \o data.organizer,
     description |-> Join(SelectSeq(<<data.description, data.address>>, Boolean), " | "),
     pubDate |-> NewDate(data.date)]

(* Faulty variant: the filter on completed is lost *)
GET_sortedEvents_NoFilter(evs) == getSortedEvents(evs)

(* Faulty variant: the filtered events are reversed, as the page does for its upcoming list *)
GET_sortedEvents_Reversed(evs) ==
    LET r == getSortedEvents(evs)
    IN  IF r.ok THEN [r EXCEPT !.value = Reverse(SelectSeq(r.value, IsCompleted))] ELSE r

(* const sortedEvents = getSortedEvents(events).filter(event => event.data.completed) *)
GET_sortedEvents(evs) ==
    LET r == getSortedEvents(evs)
    IN  IF r.ok THEN [r EXCEPT !.value = SelectSeq(r.value, IsCompleted)] ELSE r

(* Faulty variant: the sorter's error is caught and the feed is built from the unsorted events *)
GET_CatchError(evs) ==
    LET done == SelectSeq(evs, IsCompleted)
    IN  [ok |-> TRUE, error |-> <<>>,
         description |-> "Speaking appearances by Aurora Scharff",
         items |-> [i \in 1..Len(done) |-> GET_item(done[i])]]

(* GET: the response of rss({...}), or the error the request ends with *)
GET(evs) ==
    LET s == GET_sortedEvents(evs)
    IN  IF s.ok
        THEN [ok |-> TRUE, error |-> <<>>,
              description |-> "Speaking appearances by Aurora Scharff",
              items |-> [i \in 1..Len(s.value) |-> GET_item(s.value[i])]]
        ELSE [ok |-> FALSE, error |-> s.error, description |-> "", items |-> <<>>]

(* The arrays GET creates after the await: the sorter's result and the filtered one *)
GET_arrays(h, ev) ==
    LET r == CallGetSortedEvents(h, ev)
    IN  IF r.ok THEN ArrayFilter(r.heap, r.ref, CompletedOf(r.heap[r.ref])).heap ELSE h

(* const events = await getCollection("speaking") *)
FeedLoad ==
    /\ Serves("speaking/rss.xml")
    /\ feedPc = "start"
    /\ LET r == Alloc(heap, collection)
       IN  heap' = r.heap /\ feedEvents' = r.ref
    /\ feedPc' = "loaded"
    /\ UNCHANGED <<feedResponse, route, collection, ogVars, pageHtml, islandVars, sorterCalls>>
    /\ UNCHANGED <<events, sortedEvents, pastEvents, upcomingEvents, pagePc, pageError>>

(* Faulty variant: a failed GET is run again, up to three times in all *)
FeedRespond_Retry ==
    /\ feedPc \in {"loaded", "error"}
    /\ sorterCalls.feed < 3
    /\ feedResponse' = GET(heap[feedEvents])
    /\ heap' = GET_arrays(heap, feedEvents)
    /\ feedPc' = IF feedResponse'.ok THEN "done" ELSE "error"
    /\ sorterCalls' = [sorterCalls EXCEPT !.feed = @ + 1]
    /\ UNCHANGED <<feedEvents, route, collection, ogVars, pageHtml, islandVars>>
    /\ UNCHANGED <<events, sortedEvents, pastEvents, upcomingEvents, pagePc, pageError>>

(* The rest of GET, which runs to completion; a throw of the sorter ends the request *)
FeedRespond ==
    /\ feedPc = "loaded"
    /\ feedResponse' = GET(heap[feedEvents])
    /\ heap' = GET_arrays(heap, feedEvents)
    /\ feedPc' = IF feedResponse'.ok THEN "done" ELSE "error"
    /\ sorterCalls' = [sorterCalls EXCEPT !.feed = @ + 1]
    /\ UNCHANGED <<feedEvents, route, collection, ogVars, pageHtml, islandVars>>
    /\ UNCHANGED <<events, sortedEvents, pastEvents, upcomingEvents, pagePc, pageError>>

--------------------------------------------------------------------------
(* The Open Graph image templates *)

(* Blog posts handed to the templates.  Times are hours since the epoch. *)
PostTitles == {Undefined, Some(""), Some("Rebuilding Remix Contacts")}
PostDescriptions == {Undefined, Some(""), Some("Remix Contacts in Next.js 14")}
PostPubDates == {Undefined, Some(8), Some(23)}
BlogPost(t, d, p) ==
    [title |-> t, author |-> "Aurora Scharff", description |-> d, pubDate |-> p,
     pubDatetime |-> 23]
BlogPosts == {BlogPost(t, d, p) : t \in PostTitles, d \in PostDescriptions, p \in PostPubDates}

Themes ==
    {[background |-> "#fcfcfc", primary |-> "#d3006a", secondary |-> "#f1bad4",
      text |-> "#222e36", textLight |-> "#6b7280"],
     [background |-> "#19161c", primary |-> "#eb9bb9", secondary |-> "#b4aaaf",
      text |-> "#fcf8fa", textLight |-> "#b4aaaf"]}

(* The process environment: its default locale and its time zone's offset in hours *)
Environments == [locale : {"en-US", "nb-NO"}, offset : {0, 2}]

(* Date.prototype.toLocaleDateString(locales, options): the calendar day of the   *)
(* time value in the environment's time zone, in the pattern of the given locale, *)
(* or of the environment's default locale when none is given.                     *)
DatePattern(locale, options) ==
    IF options = "year:numeric,month:short,day:numeric"
    THEN (IF locale = "en-US" THEN "MMM D, YYYY" ELSE "D MMM YYYY")
    ELSE (IF locale = "en-US" THEN "M/D/YYYY"
          ELSE IF locale = "en-GB" THEN "DD/MM/YYYY" ELSE "D.M.YYYY")

toLocaleDateString(time, locales, options, env) ==
    [pattern |-> DatePattern(Nullish(locales, Some(env.locale))[1], options),
     day |-> (time + env.offset) \div 24]

(* Faulty variant: the date falls back to pubDatetime when pubDate is missing *)
postOgImage_DateFromPubDatetime(post, theme, env) ==
    [background |-> theme.background,
     title |-> [text |-> post.title, color |-> theme.text],
     description |-> IF Boolean(post.description)
                     THEN Some([text |-> post.description[1], color |-> theme.textLight])
                     ELSE Undefined,
     badge |-> [text |-> "Blog Post", background |-> theme.primary],
     date |-> Some(toLocaleDateString(Nullish(post.pubDate, Some(post.pubDatetime))[1],
                                      Undefined, "", env))]

(* The themed template, postOgImage(post, theme): what the element tree shows *)
postOgImage(post, theme, env) ==
    [background |-> theme.background,
     title |-> [text |-> post.title, color |-> theme.text],
     description |-> IF Boolean(post.description)
                     THEN Some([text |-> post.description[1], color |-> theme.textLight])
                     ELSE Undefined,
     badge |-> [text |-> "Blog Post", background |-> theme.primary],
     date |-> IF post.pubDate # Undefined
              THEN Some(toLocaleDateString(post.pubDate[1], Undefined, "", env))
              ELSE Undefined]

(* The earlier post template, the default export (post) => ... *)
postTemplate(post, env) ==
    [title |-> [text |-> post.title],
     author |-> post.author,
     date |-> toLocaleDateString(post.pubDatetime, Some("en-GB"),
                                 "year:numeric,month:short,day:numeric", env)]

(* A render of the themed template *)
OgRenderThemed(post, theme) ==
    /\ Serves("og")
    /\ ogLast' = <<[template |-> "postOgImage", input |-> <<post, theme>>,
                   ok |-> TRUE, output |-> postOgImage(post, theme, ogEnv)]>>
    /\ UNCHANGED <<ogEnv, route, collection, pageVars, feedVars, pageHtml, islandVars, sorterCalls>>

(* A render of the earlier template *)
OgRenderPost(post) ==
    /\ Serves("og")
    /\ ogLast' = <<[template |-> "post", input |-> <<post>>,
                   ok |-> TRUE, output |-> postTemplate(post, ogEnv)]>>
    /\ UNCHANGED <<ogEnv, route, collection, pageVars, feedVars, pageHtml, islandVars, sorterCalls>>

(* The next render runs in a process with another default locale or time zone *)
OgEnvChange(env) ==
    /\ Serves("og")
    /\ env # ogEnv
    /\ ogEnv' = env
    /\ UNCHANGED <<ogLast, route, collection, pageVars, feedVars, pageHtml, islandVars, sorterCalls>>

--------------------------------------------------------------------------
(* The BuyMeACoffee island, theme-aware version *)

(* The values data-theme takes: absent, empty, the two themes, and another *)
DocThemes == {Undefined, Some(""), Some("light"), Some("dark"), Some("sepia")}

(* Faulty variant: a missing or empty attribute is read as the light theme *)
Coffee_readTheme_DefaultLight(attr) == IF Boolean(attr) THEN attr[1] ELSE "light"

(* document.documentElement.getAttribute("data-theme") || "" *)
Coffee_readTheme(attr) == IF Boolean(attr) THEN attr[1] ELSE ""

(* The render: {theme ? <a href=...><img src={theme === "dark" ? dark : light} /></a> : null} *)
BuyMeACoffee_render(theme) ==
    IF theme # ""
    THEN <<[href |-> "https://www.buymeacoffee.com/aurorascharff",
            img |-> IF theme = "dark" THEN "/assets/buymeacoffee-dark.png"
                    ELSE "/assets/buymeacoffee-light.png"]>>
    ELSE <<>>

(* The effect after the first render: read the attribute, setTheme, observe *)
CoffeeMount ==
    /\ Serves("island")
    /\ coffeePc = "rendered"
    /\ coffeeTheme' = Coffee_readTheme(docTheme)
    /\ coffeeView' = BuyMeACoffee_render(coffeeTheme')
    /\ coffeeSetCalls' = coffeeSetCalls + 1
    /\ coffeeObserver' = TRUE
    /\ coffeeObserveCalls' = coffeeObserveCalls + 1
    /\ coffeePc' = "mounted"
    /\ UNCHANGED <<docTheme, docChanges, coffeePending, certVars, eventCard>>
    /\ UNCHANGED <<route, collection, pageVars, feedVars, ogVars, pageHtml, sorterCalls>>

(* The theme toggle writes data-theme, or removes it; an observing observer gets a record *)
DocSetTheme(value) ==
    /\ Serves("island")
    /\ docChanges < MaxThemeChanges
    /\ docTheme' = value
    /\ docChanges' = docChanges + 1
    /\ coffeePending' = (coffeeObserver \/ coffeePending)
    /\ UNCHANGED <<coffeePc, coffeeTheme, coffeeView, coffeeObserver, coffeeSetCalls,
                   coffeeObserveCalls, certVars, eventCard>>
    /\ UNCHANGED <<route, collection, pageVars, feedVars, ogVars, pageHtml, sorterCalls>>

(* The observer's callback, run once for the records queued: read again, setTheme *)
CoffeeObserverCallback ==
    /\ Serves("island")
    /\ coffeeObserver
    /\ coffeePending
    /\ coffeeTheme' = Coffee_readTheme(docTheme)
    /\ coffeeView' = BuyMeACoffee_render(coffeeTheme')
    /\ coffeeSetCalls' = coffeeSetCalls + 1
    /\ coffeePending' = FALSE
    /\ UNCHANGED <<docTheme, docChanges, coffeePc, coffeeObserver, coffeeObserveCalls,
                   certVars, eventCard>>
    /\ UNCHANGED <<route, collection, pageVars, feedVars, ogVars, pageHtml, sorterCalls>>

(* Faulty variant: the effect returns no cleanup, the observer goes on observing *)
CoffeeUnmount_NoDisconnect ==
    /\ Serves("island")
    /\ coffeePc = "mounted"
    /\ coffeePc' = "unmounted"
    /\ UNCHANGED <<docTheme, docChanges, coffeeTheme, coffeeView, coffeeObserver,
                   coffeePending, coffeeSetCalls, coffeeObserveCalls, certVars, eventCard>>
    /\ UNCHANGED <<route, collection, pageVars, feedVars, ogVars, pageHtml, sorterCalls>>

(* Unmount runs the effect's cleanup: observer.disconnect() drops the queued records *)
CoffeeUnmount ==
    /\ Serves("island")
    /\ coffeePc = "mounted"
    /\ coffeeObserver' = FALSE
    /\ coffeePending' = FALSE
    /\ coffeePc' = "unmounted"
    /\ UNCHANGED <<docTheme, docChanges, coffeeTheme, coffeeView, coffeeSetCalls,
                   coffeeObserveCalls, certVars, eventCard>>
    /\ UNCHANGED <<route, collection, pageVars, feedVars, ogVars, pageHtml, sorterCalls>>

--------------------------------------------------------------------------
(* The CertVisual island, click-driven version *)

(* Faulty variant: a click opens and never closes *)
CertVisual_onClick_OpenOnly(open) == TRUE

(* onClick={() => setOpen(!open)} *)
CertVisual_onClick(open) == ~open

(* The render: the two images, in a link when open and in a div otherwise *)
CertVisual_render(open) ==
    [images |-> IF open THEN "opacity-100" ELSE "opacity-0",
     wrapper |-> IF open THEN [tag |-> "a", href |-> Some("https://certificates.dev/react")]
                 ELSE [tag |-> "div", href |-> Undefined]]

(* A click on the badge button; React renders again before the next click *)
CertClick ==
    /\ Serves("card")
    /\ certClicks < MaxClicks
    /\ certOpen' = CertVisual_onClick(certOpen)
    /\ certView' = CertVisual_render(certOpen')
    /\ certClicks' = certClicks + 1
    /\ UNCHANGED <<coffeeVars, eventCard>>
    /\ UNCHANGED <<route, collection, pageVars, feedVars, ogVars, pageHtml, sorterCalls>>

--------------------------------------------------------------------------
(* The Event card. A text the card looks into is a sequence of characters. *)

YOUTUBE == <<"y", "o", "u", "t", "u", "b", "e">>
SPOTIFY == <<"s", "p", "o", "t", "i", "f", "y">>
HTTP == <<"h", "t", "t", "p", ":", "/", "/">>
HTTPS == <<"h", "t", "t", "p", "s", ":", "/", "/">>
WWW == <<"w", "w", "w", ".">>

LinkYoutube ==
    <<"h", "t", "t", "p", "s", ":", "/", "/", "w", "w", "w", ".", "y", "o",
      "u", "t", "u", "b", "e", ".", "c", "o", "m", "/", "w", "a", "t", "c",
      "h", "?", "v", "=", "W", "Q">>
LinkSpotify ==
    <<"h", "t", "t", "p", "s", ":", "/", "/", "o", "p", "e", "n", ".", "s",
      "p", "o", "t", "i", "f", "y", ".", "c", "o", "m", "/", "e", "p", "i",
      "s", "o", "d", "e", "/", "4", "k">>
LinkYoutuBe ==
    <<"h", "t", "t", "p", "s", ":", "/", "/", "y", "o", "u", "t", "u", ".",
      "b", "e", "/", "W", "Q">>
LinkSlides ==
    <<"h", "t", "t", "p", "s", ":", "/", "/", "c", "o", "n", "f", ".", "d",
      "e", "v", "/", "s", "l", "i", "d", "e", "s">>
LinkBoth ==
    <<"h", "t", "t", "p", "s", ":", "/", "/", "y", "o", "u", "t", "u", "b",
      "e", ".", "c", "o", "m", "/", "s", "p", "o", "t", "i", "f", "y">>
SiteWithWww ==
    <<"h", "t", "t", "p", "s", ":", "/", "/", "w", "w", "w", ".", "d", "e",
      "v", "s", "u", "m", ".", "s", "e">>
SiteNoWww ==
    <<"h", "t", "t", "p", "s", ":", "/", "/", "r", "e", "a", "c", "t", ".",
      "p", "a", "r", "i", "s">>

CardLinks ==
    {Undefined, Some(<<>>), Some(LinkYoutube), Some(LinkSpotify), Some(LinkYoutuBe),
     Some(LinkSlides), Some(LinkBoth)}
SiteHttp ==
    <<"h", "t", "t", "p", ":", "/", "/", "n", "d", "c", "o", "s", "l", "o",
      ".", "c", "o", "m">>
SiteBareWww ==
    <<"w", "w", "w", ".", "d", "e", "v", "s", "u", "m", ".", "s", "e">>
SiteWwwInside ==
    <<"r", "e", "a", "c", "t", ".", "p", "a", "r", "i", "s", "/", "w", "w",
      "w", ".", "a">>
SiteDoubleWww ==
    <<"h", "t", "t", "p", "s", ":", "/", "/", "w", "w", "w", ".", "w", "w",
      "w", ".", "a", ".", "i", "o">>
SiteDoubleScheme ==
    <<"h", "t", "t", "p", "s", ":", "/", "/", "h", "t", "t", "p", ":", "/",
      "/", "a", ".", "i", "o">>
SiteSchemeInside ==
    <<"a", ".", "i", "o", "/", "?", "u", "=", "h", "t", "t", "p", "s", ":",
      "/", "/", "b", ".", "i", "o">>
SiteSchemeOnly ==
    <<"h", "t", "t", "p", "s", ":", "/", "/">>

CardWebsiteLinks ==
    {Undefined, Some(<<>>), Some(SiteWithWww), Some(SiteNoWww), Some(SiteHttp),
     Some(SiteBareWww), Some(SiteWwwInside), Some(SiteDoubleWww), Some(SiteDoubleScheme),
     Some(SiteSchemeInside), Some(SiteSchemeOnly)}

Frontmatter(l, w, d) ==
    [organizer |-> "React Conf", name |-> "Talk 1", date |-> d, completed |-> TRUE,
     link |-> l, websiteLink |-> w, description |-> Some("About forms")]
Frontmatters == {Frontmatter(l, w, d) : l \in CardLinks, w \in CardWebsiteLinks, d \in Dates}

(* A defined, non-empty text: what {x && ...} and {x ? ... : ...} test *)
Truthy(x) == x # Undefined /\ x # Some(<<>>)

(* String.prototype.includes *)
Includes(text, part) ==
    \E i \in 1..(Len(text) - Len(part) + 1) : SubSeq(text, i, i + Len(part) - 1) = part

StartsWith(text, part) ==
    Len(text) >= Len(part) /\ SubSeq(text, 1, Len(part)) = part
Drop(text, n) == SubSeq(text, n + 1, Len(text))

(* Faulty variant: the scheme is removed at the start and the first "www." *)
(* wherever it stands                                                      *)
ReplaceSchemeAndWww_WwwAnywhere(text) ==
    LET rest == IF StartsWith(text, HTTPS) THEN Drop(text, Len(HTTPS))
                ELSE IF StartsWith(text, HTTP) THEN Drop(text, Len(HTTP))
                ELSE text
    IN  IF Includes(rest, WWW)
        THEN LET at == CHOOSE i \in 1..Len(rest) :
                        /\ SubSeq(rest, i, i + Len(WWW) - 1) = WWW
                        /\ \A j \in 1..(i - 1) : SubSeq(rest, j, j + Len(WWW) - 1) # WWW
             IN  SubSeq(rest, 1, at - 1) \o Drop(rest, at + Len(WWW) - 1)
        ELSE rest

(* text.replace(/(https?:\/\/)?(www\.)?/, ""): the first match is at the start *)
ReplaceSchemeAndWww(text) ==
    LET rest == IF StartsWith(text, HTTPS) THEN Drop(text, Len(HTTPS))
                ELSE IF StartsWith(text, HTTP) THEN Drop(text, Len(HTTP))
                ELSE text
    IN  IF StartsWith(rest, WWW) THEN Drop(rest, Len(WWW)) ELSE rest

(* <Datetime hideTime={true} pubDatetime={date} modDatetime={null} /> *)
DatetimeElement(date) == [pubDatetime |-> date, hideTime |-> TRUE, modDatetime |-> Undefined]

(* The name of the card: a link around the heading, or the heading alone *)
Event_name(name, link) ==
    IF Truthy(link) THEN [tag |-> "a", href |-> link, text |-> name]
    ELSE [tag |-> "h2", href |-> Undefined, text |-> name]

(* The icons beside the name *)
Event_icons(link) ==
    IF Truthy(link)
    THEN {i \in {"youtube", "spotify"} :
            \/ i = "youtube" /\ Includes(link[1], YOUTUBE)
            \/ i = "spotify" /\ Includes(link[1], SPOTIFY)}
    ELSE {}

(* The earlier version of the card: the website link shows its address as it is *)
Event_earlier(frontmatter) ==
    [organizer |-> frontmatter.organizer,
     website |-> IF Truthy(frontmatter.websiteLink)
                 THEN <<[href |-> frontmatter.websiteLink[1],
                         text |-> frontmatter.websiteLink[1]]>>
                 ELSE <<>>,
     name |-> Event_name(frontmatter.name, frontmatter.link),
     icons |-> Event_icons(frontmatter.link),
     datetime |-> DatetimeElement(frontmatter.date)]

(* Faulty variant: the name is a link whenever link is defined, the empty text included *)
Event_LinkWhenDefined(frontmatter) ==
    [organizer |-> frontmatter.organizer,
     website |-> IF Truthy(frontmatter.websiteLink)
                 THEN <<[href |-> frontmatter.websiteLink[1],
                         text |-> ReplaceSchemeAndWww(frontmatter.websiteLink[1])]>>
                 ELSE <<>>,
     name |-> IF frontmatter.link # Undefined
              THEN [tag |-> "a", href |-> frontmatter.link, text |-> frontmatter.name]
              ELSE [tag |-> "h2", href |-> Undefined, text |-> frontmatter.name],
     icons |-> Event_icons(frontmatter.link),
     datetime |-> DatetimeElement(frontmatter.date)]

(* The card *)
Event(frontmatter) ==
    [organizer |-> frontmatter.organizer,
     website |-> IF Truthy(frontmatter.websiteLink)
                 THEN <<[href |-> frontmatter.websiteLink[1],
                         text |-> ReplaceSchemeAndWww(frontmatter.websiteLink[1])]>>
                 ELSE <<>>,
     name |-> Event_name(frontmatter.name, frontmatter.link),
     icons |-> Event_icons(frontmatter.link),
     datetime |-> DatetimeElement(frontmatter.date)]

(* A render of the card *)
EventRender(frontmatter) ==
    /\ Serves("card")
    /\ eventCard' = <<[version |-> "current", props |-> frontmatter,
                      output |-> Event(frontmatter)]>>
    /\ UNCHANGED <<coffeeVars, certVars>>
    /\ UNCHANGED <<route, collection, pageVars, feedVars, ogVars, pageHtml, sorterCalls>>

(* A render of the earlier version of the card *)
EventRenderEarlier(frontmatter) ==
    /\ Serves("card")
    /\ eventCard' = <<[version |-> "earlier", props |-> frontmatter,
                      output |-> Event_earlier(frontmatter)]>>
    /\ UNCHANGED <<coffeeVars, certVars>>
    /\ UNCHANGED <<route, collection, pageVars, feedVars, ogVars, pageHtml, sorterCalls>>

--------------------------------------------------------------------------
(* Specifications *)

(* Nothing has run yet: no array, no response, no render, no island mounted *)
IdleInit ==
    /\ heap = <<>>
    /\ events = 0 /\ sortedEvents = 0 /\ pastEvents = 0 /\ upcomingEvents = 0
    /\ pagePc = "start"
    /\ pageError = <<>>
    /\ pageHtml = <<>>
    /\ feedPc = "start"
    /\ feedEvents = 0
    /\ feedResponse = <<>>
    /\ ogLast = <<>>
    /\ docChanges = 0
    /\ coffeePc = "rendered"
    /\ coffeeTheme = ""
    /\ coffeeView = BuyMeACoffee_render("")
    /\ coffeeObserver = FALSE
    /\ coffeePending = FALSE
    /\ coffeeSetCalls = 0
    /\ coffeeObserveCalls = 0
    /\ certOpen = FALSE
    /\ certClicks = 0
    /\ certView = CertVisual_render(FALSE)
    /\ eventCard = <<>>
    /\ sorterCalls = [page |-> 0, feed |-> 0]

Init ==
    /\ route \in {"speaking", "speaking/rss.xml", "og"}
    /\ IF route = "og"
       THEN collection = <<>> /\ ogEnv \in Environments
       ELSE /\ \E n \in 0..MaxEvents :
                 \E f \in [1..n -> Dates \X BOOLEAN] : collection = SpeakingStore(n, f)
            /\ ogEnv = <<>>
    /\ docTheme = Undefined
    /\ IdleInit

Next ==
    \/ PageLoad \/ PageSort \/ PagePast \/ PageUpcoming \/ PageTemplate
    \/ FeedLoad \/ FeedRespond
    \/ \E post \in BlogPosts : \E theme \in Themes : OgRenderThemed(post, theme)
    \/ \E post \in BlogPosts : OgRenderPost(post)
    \/ \E env \in Environments : OgEnvChange(env)

Spec == Init /\ [][Next]_vars

--------------------------------------------------------------------------
(* The feed over entries whose optional fields are set, empty or missing *)

Links == {Undefined, Some(""), Some("https://youtu.be/abc")}
WebsiteLinks == {Undefined, Some(""), Some("https://conf.dev")}
Descriptions == {Undefined, Some(""), Some("About forms")}
Addresses == {Undefined, Some(""), Some("Oslo")}

(* A completed talk with the given optional fields *)
FeedEntry(i, l, w, d, a) ==
    [SpeakingEntry(i, ValidDate(1), TRUE) EXCEPT
        !.link = l, !.websiteLink = w, !.description = d, !.address = a]

InitFeed ==
    /\ route = "speaking/rss.xml"
    /\ ogEnv = <<>>
    /\ docTheme = Undefined
    /\ IdleInit

InitFeedLinks ==
    /\ InitFeed
    /\ \E n \in 0..MaxFeedEntries : \E f \in [1..n -> Links \X WebsiteLinks] :
            collection = [i \in 1..n |->
                FeedEntry(i, f[i][1], f[i][2], Some("About forms"), Some("Oslo"))]

InitFeedText ==
    /\ InitFeed
    /\ \E n \in 0..MaxFeedEntries : \E f \in [1..n -> Descriptions \X Addresses] :
            collection = [i \in 1..n |->
                FeedEntry(i, Undefined, Some("https://conf.dev"), f[i][1], f[i][2])]

NextFeed == FeedLoad \/ FeedRespond

SpecFeedLinks == InitFeedLinks /\ [][NextFeed]_vars
SpecFeedText == InitFeedText /\ [][NextFeed]_vars

--------------------------------------------------------------------------
(* The islands in the browser *)

InitCoffee ==
    /\ route = "island"
    /\ collection = <<>>
    /\ ogEnv = <<>>
    /\ docTheme \in DocThemes
    /\ IdleInit

NextCoffee ==
    \/ CoffeeMount \/ CoffeeObserverCallback \/ CoffeeUnmount
    \/ \E value \in DocThemes : DocSetTheme(value)

SpecCoffee == InitCoffee /\ [][NextCoffee]_vars

InitCards ==
    /\ route = "card"
    /\ collection = <<>>
    /\ ogEnv = <<>>
    /\ docTheme = Undefined
    /\ IdleInit

NextCards ==
    \/ CertClick
    \/ \E frontmatter \in Frontmatters : EventRender(frontmatter)
    \/ \E frontmatter \in Frontmatters : EventRenderEarlier(frontmatter)

SpecCards == InitCards /\ [][NextCards]_vars

--------------------------------------------------------------------------
(* A build: the page, the feed and image renders run in one process, their *)
(* steps interleaved at will, all arrays on the one heap of the process    *)

BuildPost ==
    BlogPost(Some("Rebuilding Remix Contacts"), Some("Remix Contacts in Next.js 14"), Some(23))

InitBuild ==
    /\ route = "build"
    /\ \E n \in 0..MaxBuildEvents : \E f \in [1..n -> Dates \X BOOLEAN] :
            collection = SpeakingStore(n, f)
    /\ ogEnv \in Environments
    /\ docTheme = Undefined
    /\ IdleInit

NextBuild ==
    \/ PageLoad \/ PageSort \/ PagePast \/ PageUpcoming \/ PageTemplate
    \/ FeedLoad \/ FeedRespond
    \/ \E theme \in Themes : OgRenderThemed(BuildPost, theme)
    \/ OgRenderPost(BuildPost)

SpecBuild == InitBuild /\ [][NextBuild]_vars

(* The page script and template run alone, from await to output, on a heap of their own *)
PageAlone(store) ==
    LET e == Page_events(<<>>, store)
        s == Page_sortedEvents(e.heap, e.ref)
        p == Page_pastEvents(s.heap, s.ref)
        u == Page_upcomingEvents(p.heap, s.ref)
    IN  IF s.ok
        THEN [ok |-> TRUE, error |-> <<>>, html |-> Page_template(u.heap, u.ref, p.ref)]
        ELSE [ok |-> FALSE, error |-> s.error, html |-> <<>>]

(* A render run alone *)
OgAlone(template, input, env) ==
    IF template = "postOgImage" THEN postOgImage(input[1], input[2], env)
    ELSE postTemplate(input[1], env)

--------------------------------------------------------------------------
(* Properties of the sorter and of the speaking page *)

PageHasSorted == pagePc \in {"sorted", "past", "done"}
Position(s, e) == CHOOSE k \in 1..Len(s) : s[k] = e
DatesOf(s) == [i \in 1..Len(s) |-> s[i].date.time]
Flags(s) == [i \in 1..Len(s) |-> s[i].completed]

(* C1: the sequence getSortedEvents returns is a permutation of its input   *)
(* (every input entry exactly once, nothing else) and each entry's date is  *)
(* greater than or equal to the date of the entry that follows it.          *)
C1_SortedIsDescendingPermutation ==
    PageHasSorted =>
        LET out == heap[sortedEvents]
        IN  /\ Len(out) = Len(collection)
            /\ \A i \in 1..Len(collection) :
                   Cardinality({k \in 1..Len(out) : out[k] = collection[i]}) = 1
            /\ \A k \in 1..(Len(out) - 1) : out[k].date.time >= out[k + 1].date.time

(* The example of the specification: dates 2024-01-01, 2024-06-01, 2023-01-01 *)
C1_Witness ==
    /\ pagePc = "sorted"
    /\ DatesOf(collection) = <<2, 3, 1>>
    /\ DatesOf(heap[sortedEvents]) = <<3, 2, 1>>

(* C2: the sort is stable: two entries with equal dates appear in the sorted *)
(* output in the relative order they had in the input.                       *)
C2_SortIsStable ==
    PageHasSorted =>
        LET out == heap[sortedEvents]
        IN  \A i, j \in 1..Len(collection) :
                (i < j /\ collection[i].date = collection[j].date
                       /\ collection[i] \in Range(out) /\ collection[j] \in Range(out))
                    => Position(out, collection[i]) < Position(out, collection[j])

C2_Witness ==
    /\ pagePc = "sorted"
    /\ DatesOf(collection) = <<1, 2, 1, 2>>
    /\ Ids(heap[sortedEvents]) = <<2, 4, 1, 3>>

(* C3: every entry of the sorted sequence is in exactly one of pastEvents   *)
(* (completed) and upcomingEvents (not completed): their union is the       *)
(* sorted sequence's set of entries and their intersection is empty; five   *)
(* entries with completed = true,false,true,false,true give 3 past and 2    *)
(* upcoming.                                                                *)
C3_PartitionTotalDisjoint ==
    /\ pagePc = "done" =>
        LET sorted == heap[sortedEvents]
            past == heap[pastEvents]
            upcoming == heap[upcomingEvents]
        IN  /\ Range(past) \cup Range(upcoming) = Range(sorted)
            /\ Range(past) \cap Range(upcoming) = {}
            /\ Len(past) + Len(upcoming) = Len(sorted)
            /\ \A e \in Range(past) : e.completed
            /\ \A e \in Range(upcoming) : ~e.completed
    /\ LET five == [i \in 1..5 |-> SpeakingEntry(i, ValidDate(1), i % 2 = 1)]
           p == Page_pastEvents(<<five>>, 1)
           u == Page_upcomingEvents(p.heap, 1)
       IN  Len(u.heap[p.ref]) = 3 /\ Len(u.heap[u.ref]) = 2

C3_Witness ==
    /\ pagePc = "done"
    /\ Flags(heap[sortedEvents]) = <<TRUE, FALSE, TRUE, FALSE>>
    /\ Len(heap[pastEvents]) = 2
    /\ Len(heap[upcomingEvents]) = 2

(* C4, as claimed: two entries of the same partition, past or upcoming,     *)
(* have the relative order there that they have in the sorted sequence.     *)
C4_PartitionsKeepSortedOrder ==
    pagePc = "done" =>
        LET sorted == heap[sortedEvents]
            past == heap[pastEvents]
            upcoming == heap[upcomingEvents]
        IN  /\ \A a, b \in 1..Len(past) :
                   a < b => Position(sorted, past[a]) < Position(sorted, past[b])
            /\ \A a, b \in 1..Len(upcoming) :
                   a < b => Position(sorted, upcoming[a]) < Position(sorted, upcoming[b])

(* C4, amended: pastEvents keeps the relative order of the sorted sequence; *)
(* upcomingEvents holds the not-completed entries in the reverse of their   *)
(* relative order in the sorted sequence.                                   *)
C4_PastKeepsOrderUpcomingReversed ==
    pagePc = "done" =>
        LET sorted == heap[sortedEvents]
            past == heap[pastEvents]
            upcoming == heap[upcomingEvents]
        IN  /\ \A a, b \in 1..Len(past) :
                   a < b => Position(sorted, past[a]) < Position(sorted, past[b])
            /\ \A a, b \in 1..Len(upcoming) :
                   a < b => Position(sorted, upcoming[a]) > Position(sorted, upcoming[b])

C4_Witness ==
    /\ pagePc = "done"
    /\ Len(heap[pastEvents]) = 2
    /\ Len(heap[upcomingEvents]) = 2
    /\ Position(heap[sortedEvents], heap[upcomingEvents][1])
         > Position(heap[sortedEvents], heap[upcomingEvents][2])

(* C5, as claimed: within each partition the entries are strictly ordered   *)
(* by date: no two adjacent entries have equal dates, and the dates are     *)
(* monotone along the partition.                                            *)
C5_PartitionsStrictlyOrdered ==
    pagePc = "done" =>
        LET past == heap[pastEvents]
            upcoming == heap[upcomingEvents]
        IN  /\ \A k \in 1..(Len(past) - 1) : past[k].date.time > past[k + 1].date.time
            /\ \A k \in 1..(Len(upcoming) - 1) :
                   upcoming[k].date.time < upcoming[k + 1].date.time

(* C5, amended: within each partition the dates are monotone, not strictly: *)
(* non-increasing along pastEvents and non-decreasing along upcomingEvents; *)
(* adjacent entries of a partition may have equal dates.                    *)
C5_PartitionsWeaklyOrdered ==
    pagePc = "done" =>
        LET past == heap[pastEvents]
            upcoming == heap[upcomingEvents]
        IN  /\ \A k \in 1..(Len(past) - 1) : past[k].date.time >= past[k + 1].date.time
            /\ \A k \in 1..(Len(upcoming) - 1) :
                   upcoming[k].date.time <= upcoming[k + 1].date.time

C5_Witness ==
    /\ pagePc = "done"
    /\ DatesOf(heap[pastEvents]) = <<2, 2>>
    /\ DatesOf(heap[upcomingEvents]) = <<1, 3>>

--------------------------------------------------------------------------
(* Properties of the speaking RSS feed and of error handling *)

HasInvalidDate(s) == \E i \in 1..Len(s) : ~IsValidDate(s[i].date)
Completed(s) == {i \in 1..Len(s) : s[i].completed}

(* C6: the feed has exactly one item per completed speaking entry and none  *)
(* for an entry that is not completed; every item carries title, link,      *)
(* description and pubDate, with title = "<name> @ <organizer>" and         *)
(* pubDate = the entry's date.                                              *)
C6_FeedItemPerCompletedEntry ==
    feedPc = "done" =>
        LET items == feedResponse.items
        IN  /\ Len(items) = Cardinality(Completed(collection))
            /\ \A i \in 1..Len(collection) :
                   LET e == collection[i]
                       mine == {k \in 1..Len(items) :
                                   /\ items[k].title = e.name \o " @ " \o e.organizer
                                   /\ items[k].pubDate = [valid |-> TRUE, time |-> e.date.time]}
                   IN  Cardinality(mine) = IF e.completed THEN 1 ELSE 0
            /\ \A k \in 1..Len(items) :
                   DOMAIN items[k] = {"title", "link", "description", "pubDate"}

C6_Witness ==
    /\ feedPc = "done"
    /\ Flags(collection) = <<TRUE, FALSE, TRUE>>
    /\ DatesOf(collection) = <<1, 3, 2>>
    /\ Len(feedResponse.items) = 2
    /\ feedResponse.items[1].title = "Talk 3 @ React Conf"
    /\ feedResponse.items[1].pubDate.time = 2

(* C7: when an entry given to the sorter has a malformed or missing date,   *)
(* the sort and the page or feed build that called it end in an error that  *)
(* names the invalid entry; no sorted sequence, partition or feed item is   *)
(* ever produced from that collection.                                      *)
C7_InvalidDateEndsInError ==
    HasInvalidDate(collection) =>
        /\ pagePc \in {"start", "loaded", "error"}
        /\ sortedEvents = 0 /\ pastEvents = 0 /\ upcomingEvents = 0
        /\ pagePc = "error" =>
               /\ pageError.name = "InvalidDate"
               /\ ~IsValidDate(collection[pageError.entry].date)
        /\ feedPc \in {"start", "loaded", "error"}
        /\ feedPc = "error" =>
               /\ ~feedResponse.ok
               /\ feedResponse.items = <<>>
               /\ feedResponse.error.name = "InvalidDate"
               /\ ~IsValidDate(collection[feedResponse.error.entry].date)

C7_Witness ==
    /\ feedPc = "error"
    /\ Len(collection) = 3
    /\ collection[1].completed /\ IsValidDate(collection[1].date)
    /\ collection[2].date = MalformedDate
    /\ collection[3].date = MissingDate
    /\ feedResponse.error.entry = 2

(* C8: sorting and partitioning do not mutate their input: no step of the   *)
(* page script changes the array getCollection returned, which stays equal  *)
(* to the collection, nor the array getSortedEvents returned, also not the  *)
(* reverse() applied to the upcoming list.                                  *)
C8_NoMutationOfInput ==
    [][ /\ collection' = collection
        /\ events # 0 => (heap[events] = collection /\ heap'[events] = heap[events])
        /\ sortedEvents # 0 => heap'[sortedEvents] = heap[sortedEvents] ]_vars

C8_Witness ==
    /\ pagePc = "done"
    /\ Len(heap[upcomingEvents]) = 2
    /\ heap[upcomingEvents] # SelectSeq(heap[sortedEvents], IsNotCompleted)
    /\ heap[events] = collection
    /\ heap[sortedEvents] # heap[events]
    /\ DatesOf(heap[sortedEvents]) = <<3, 2, 1>>

--------------------------------------------------------------------------
(* Properties of the Open Graph image templates *)

(* C9: the render is deterministic: a render of the same template with the  *)
(* same input as the render before it produces the same output, whatever    *)
(* the environment's default locale and time zone are.                      *)
C9_RenderDeterministic ==
    [][ (/\ ogLast # <<>>
         /\ ogLast' # <<>>
         /\ ogLast'[1].template = ogLast[1].template
         /\ ogLast'[1].input = ogLast[1].input)
            => ogLast'[1].output = ogLast[1].output ]_vars

(* C10: a render whose input has no title ends with a validation error and  *)
(* emits no image; no image is produced with an empty or undefined title.   *)
C10_MissingTitleIsValidationError ==
    ogLast # <<>> =>
        LET r == ogLast[1]
        IN  /\ r.input[1].title = Undefined => ~r.ok
            /\ r.ok => Boolean(r.output.title.text)

--------------------------------------------------------------------------
(* Failure of an invocation *)

(* C12: a failed sort is never retried: an invocation that has reached its  *)
(* error outcome stays there with the error it ended with, its variables    *)
(* never change again and the sorter is not called again for it; over its   *)
(* whole life an invocation calls the sorter at most once.                  *)
C12_FailureIsFinal ==
    [][ /\ feedPc = "error" =>
            /\ UNCHANGED feedVars
            /\ sorterCalls'.feed = sorterCalls.feed
        /\ pagePc = "error" =>
            /\ UNCHANGED <<events, sortedEvents, pastEvents, upcomingEvents,
                           pagePc, pageError, pageHtml>>
            /\ sorterCalls'.page = sorterCalls.page
        /\ sorterCalls'.feed <= 1 /\ sorterCalls'.page <= 1 ]_vars

C12_Witness ==
    /\ feedPc = "error"
    /\ ~feedResponse.ok
    /\ feedResponse.items = <<>>
    /\ feedResponse.error.name = "InvalidDate"
    /\ sorterCalls.feed = 1
    /\ Len(collection) = 3

--------------------------------------------------------------------------
(* The path of an entry from the collection to the feed *)

(* The title the feed gives an entry; entries of the store have distinct names *)
TitleOf(e) == e.name \o " @ " \o e.organizer
Titles(s) == [i \in 1..Len(s) |-> TitleOf(s[i])]
SorterPosition(sorted, title) == CHOOSE k \in 1..Len(sorted) : TitleOf(sorted[k]) = title

(* C13: every item of a served feed is an entry of the collection that is   *)
(* in the sorter's output, no entry appears twice, and the items are in the *)
(* same relative order as their entries in the sorter's output.             *)
C13_FeedFollowsSorterOrder ==
    feedPc = "done" =>
        LET sorted == getSortedEvents(collection).value
            items  == feedResponse.items
        IN  /\ \A i \in 1..Len(items) :
                    /\ \E k \in 1..Len(collection) : TitleOf(collection[k]) = items[i].title
                    /\ \E k \in 1..Len(sorted) : TitleOf(sorted[k]) = items[i].title
            /\ \A i, j \in 1..Len(items) : i # j => items[i].title # items[j].title
            /\ \A i, j \in 1..Len(items) :
                    i < j => SorterPosition(sorted, items[i].title)
                                < SorterPosition(sorted, items[j].title)

(* Three completed talks, two of them on the same day, stored oldest first, *)
(* and one talk still to come between them in the sorter's output           *)
C13_Witness ==
    /\ feedPc = "done"
    /\ Len(feedResponse.items) = 3
    /\ Len(collection) = 4
    /\ DatesOf(collection) = <<1, 2, 3, 3>>
    /\ Flags(collection) = <<TRUE, FALSE, TRUE, TRUE>>
    /\ feedResponse.items[1].title = "Talk 3 @ React Conf"
    /\ feedResponse.items[3].title = "Talk 1 @ React Conf"

--------------------------------------------------------------------------
(* The lists of the speaking page *)

NonIncreasing(ds) == \A i, j \in 1..Len(ds) : i < j => ds[i] >= ds[j]
NonDecreasing(ds) == \A i, j \in 1..Len(ds) : i < j => ds[i] <= ds[j]

(* C14: on the rendered speaking page the Previous list is the completed    *)
(* events in the sorter's order, so descending by date, and the Upcoming    *)
(* list is the not-completed events in exactly the reverse of the sorter's  *)
(* order, so ascending by date, events of one day included.                 *)
C14_ListsFollowSorterOrder ==
    pagePc = "rendered" =>
        LET sorted == getSortedEvents(collection).value
        IN  /\ pageHtml.previous = EventList(SelectSeq(sorted, IsCompleted))
            /\ pageHtml.upcoming = EventList(Reverse(SelectSeq(sorted, IsNotCompleted)))
            /\ NonIncreasing(DatesOf(sorted))
            /\ NonIncreasing(DatesOf(pageHtml.previous))
            /\ NonDecreasing(DatesOf(pageHtml.upcoming))

(* Two talks to come on the same day and a later one, and one talk done *)
C14_Witness ==
    /\ pagePc = "rendered"
    /\ Len(pageHtml.previous) = 1
    /\ DatesOf(pageHtml.upcoming) = <<2, 2, 3>>
    /\ pageHtml.upcoming[1].name = "Talk 3"
    /\ pageHtml.upcoming[2].name = "Talk 2"
    /\ DatesOf(collection) = <<1, 2, 2, 3>>

--------------------------------------------------------------------------
(* The fields of a feed item *)

(* The entry a feed item was made from *)
EntryOf(item) == CHOOSE e \in Range(collection) : TitleOf(e) = item.title

(* C15: every item has a link: the entry's link when it is defined, the     *)
(* empty string included; otherwise its websiteLink when that is defined;   *)
(* otherwise "speaking/". The websiteLink is not used when link is defined. *)
C15_LinkByPriority ==
    feedPc = "done" =>
        /\ Len(feedResponse.items) = Len(collection)
        /\ \A i \in 1..Len(feedResponse.items) :
            LET item == feedResponse.items[i]
                e    == EntryOf(item)
            IN  /\ e.link # Undefined => item.link = e.link[1]
                /\ e.link = Some("") => item.link = ""
                /\ (e.link = Undefined /\ e.websiteLink # Undefined)
                        => item.link = e.websiteLink[1]
                /\ (e.link = Undefined /\ e.websiteLink = Undefined)
                        => item.link = "speaking/"
                /\ (e.link # Undefined /\ e.websiteLink # Undefined
                        /\ e.websiteLink # e.link)
                        => item.link # e.websiteLink[1]

(* An entry with an empty link and a website, and one with a website only *)
C15_Witness ==
    /\ feedPc = "done"
    /\ Len(feedResponse.items) = 2
    /\ collection[1].link = Some("")
    /\ collection[1].websiteLink = Some("https://conf.dev")
    /\ feedResponse.items[1].link = ""
    /\ collection[2].link = Undefined
    /\ feedResponse.items[2].link = "https://conf.dev"

(* The texts a part can have, and the descriptions with a dangling separator *)
PartTexts == {"", "About forms", "Oslo"}
DanglingSeparator ==
    {" | " \o t : t \in PartTexts} \cup {t \o " | " : t \in PartTexts}

(* C16: the description of an item is the entry's description and address   *)
(* joined by " | ", a missing or empty part left out: both give             *)
(* "description | address", one gives that part alone, none gives "", and   *)
(* the result neither starts nor ends with the separator.                   *)
C16_DescriptionJoinsPresentParts ==
    feedPc = "done" =>
        /\ Len(feedResponse.items) = Len(collection)
        /\ \A i \in 1..Len(feedResponse.items) :
            LET item == feedResponse.items[i]
                e    == EntryOf(item)
                hasD == e.description \notin {Undefined, Some("")}
                hasA == e.address \notin {Undefined, Some("")}
            IN  /\ (hasD /\ hasA) =>
                        item.description = e.description[1] \o " | " \o e.address[1]
                /\ (hasD /\ ~hasA) => item.description = e.description[1]
                /\ (~hasD /\ hasA) => item.description = e.address[1]
                /\ (~hasD /\ ~hasA) => item.description = ""
                /\ item.description \notin DanglingSeparator

(* An entry with an empty description and an address, and one with both *)
C16_Witness ==
    /\ feedPc = "done"
    /\ Len(feedResponse.items) = 2
    /\ collection[1].description = Some("")
    /\ collection[1].address = Some("Oslo")
    /\ feedResponse.items[1].description = "Oslo"
    /\ feedResponse.items[2].description = "About forms | Oslo"

--------------------------------------------------------------------------
(* Invocations in one process *)

(* C11: whatever the order and interleaving of the page render, the feed    *)
(* GET and the image renders of a build, each ends with the result it has   *)
(* when run alone on the same input: the page with the same lists or the    *)
(* same error, the feed with the same response, a render with the same      *)
(* image.                                                                   *)
C11_ResultAsWhenRunAlone ==
    /\ pagePc = "rendered" =>
            PageAlone(collection).ok /\ pageHtml = PageAlone(collection).html
    /\ pagePc = "error" =>
            ~PageAlone(collection).ok /\ pageError = PageAlone(collection).error
    /\ feedPc \in {"done", "error"} => feedResponse = GET(collection)
    /\ ogLast # <<>> =>
            ogLast[1].output = OgAlone(ogLast[1].template, ogLast[1].input, ogEnv)

(* The feed loaded and answered between the page's await and its sort, and *)
(* an image was rendered: the page's arrays lie behind the feed's          *)
C11_Witness ==
    /\ route = "build"
    /\ pagePc = "rendered"
    /\ feedPc = "done"
    /\ ogLast # <<>>
    /\ events = 1 /\ feedEvents = 2 /\ sortedEvents = 5
    /\ Len(pageHtml.upcoming) = 1
    /\ Len(pageHtml.previous) = 1
    /\ Len(feedResponse.items) = 1

--------------------------------------------------------------------------
(* The BuyMeACoffee island *)

(* The value of data-theme as a text, empty when the attribute is absent *)
AttributeText(attr) == IF attr = Undefined THEN "" ELSE attr[1]

(* C17: before the mount effect has run the theme state is empty and        *)
(* nothing is rendered; while mounted, once no observer callback is         *)
(* waiting, the state is the current value of data-theme, empty when the    *)
(* attribute is absent; the widget shows the dark image exactly when the    *)
(* state is "dark", the light image for any other non-empty state, and      *)
(* neither link nor image for the empty state.                              *)
C17_ThemeFollowsAttribute ==
    /\ coffeePc = "rendered" => (coffeeTheme = "" /\ coffeeView = <<>>)
    /\ (coffeePc = "mounted" /\ ~coffeePending) => coffeeTheme = AttributeText(docTheme)
    /\ coffeeTheme = "" <=> coffeeView = <<>>
    /\ coffeeTheme = "dark" <=>
            (coffeeView # <<>> /\ coffeeView[1].img = "/assets/buymeacoffee-dark.png")
    /\ coffeeTheme \notin {"", "dark"} <=>
            (coffeeView # <<>> /\ coffeeView[1].img = "/assets/buymeacoffee-light.png")
    /\ coffeeView # <<>> => coffeeView[1].href = "https://www.buymeacoffee.com/aurorascharff"

(* Three theme changes after the mount, the last to a theme that is neither *)
(* light nor dark, and the callbacks have run                               *)
C17_Witness ==
    /\ coffeePc = "mounted"
    /\ docChanges = 3
    /\ ~coffeePending
    /\ docTheme = Some("sepia")
    /\ coffeeTheme = "sepia"
    /\ coffeeSetCalls = 4
    /\ coffeeView[1].img = "/assets/buymeacoffee-light.png"

(* C18: once the widget is unmounted its observer is disconnected with no   *)
(* record waiting, and no later change of data-theme calls setTheme or      *)
(* changes the state; the observer is registered once by the mount effect   *)
(* and never again, whatever the theme changes.                             *)
C18_DisconnectedAfterUnmount ==
    [][ /\ coffeePc = "unmounted" =>
            /\ coffeeSetCalls' = coffeeSetCalls
            /\ coffeeTheme' = coffeeTheme
        /\ coffeePc' = "unmounted" => (~coffeeObserver' /\ ~coffeePending')
        /\ coffeeObserveCalls' = (IF coffeePc' = "rendered" THEN 0 ELSE 1) ]_vars

(* Unmounted with the light theme; data-theme was changed twice afterwards *)
C18_Witness ==
    /\ coffeePc = "unmounted"
    /\ docChanges = 3
    /\ coffeeSetCalls = 2
    /\ coffeeObserveCalls = 1
    /\ docTheme = Some("dark")
    /\ coffeeTheme = "light"

--------------------------------------------------------------------------
(* The CertVisual island *)

(* C19: open is true exactly after an odd number of clicks; the images are  *)
(* in the link to https://certificates.dev/react exactly when open is true  *)
(* and in a plain div otherwise, with full opacity exactly when open is     *)
(* true and opacity 0 otherwise.                                            *)
C19_OpenIffOddClicks ==
    /\ certOpen <=> (certClicks % 2 = 1)
    /\ certOpen <=> (certView.wrapper.tag = "a")
    /\ certOpen <=> (certView.wrapper.href = Some("https://certificates.dev/react"))
    /\ ~certOpen <=> (certView.wrapper.tag = "div" /\ certView.wrapper.href = Undefined)
    /\ certOpen <=> (certView.images = "opacity-100")
    /\ ~certOpen <=> (certView.images = "opacity-0")

C19_Witness ==
    /\ certClicks = 3
    /\ certOpen
    /\ certView.wrapper.tag = "a"
    /\ certView.images = "opacity-100"

--------------------------------------------------------------------------
(* The Event card *)

(* The sample links that contain "youtube", and those that contain "spotify" *)
LinksWithYoutube == {LinkYoutube, LinkBoth}
LinksWithSpotify == {LinkSpotify, LinkBoth}

(* C20: in both versions of the card the name is a link to link exactly     *)
(* when link is non-empty and a plain heading otherwise; the YouTube icon   *)
(* is there exactly when link is non-empty and contains "youtube", the      *)
(* Spotify icon exactly when it is non-empty and contains "spotify"; with   *)
(* no link there is no icon; the name and the date are always rendered.     *)
C20_NameLinkedAndIconsByLink ==
    eventCard # <<>> =>
        LET frontmatter == eventCard[1].props
            card        == eventCard[1].output
            hasLink     == frontmatter.link \notin {Undefined, Some(<<>>)}
        IN  /\ card.name.text = frontmatter.name
            /\ hasLink <=> (card.name.tag = "a" /\ card.name.href = frontmatter.link)
            /\ ~hasLink <=> (card.name.tag = "h2" /\ card.name.href = Undefined)
            /\ "youtube" \in card.icons <=>
                    (hasLink /\ frontmatter.link[1] \in LinksWithYoutube)
            /\ "spotify" \in card.icons <=>
                    (hasLink /\ frontmatter.link[1] \in LinksWithSpotify)
            /\ ~hasLink => card.icons = {}
            /\ card.datetime.pubDatetime = frontmatter.date

(* A card of the current version for a talk with a recording on YouTube *)
C20_Witness ==
    /\ eventCard # <<>>
    /\ eventCard[1].version = "current"
    /\ eventCard[1].props.link = Some(LinkYoutube)
    /\ eventCard[1].output.name.tag = "a"
    /\ eventCard[1].output.icons = {"youtube"}

(* What the card may take off the front of a website address *)
RemovablePrefixes == {<<>>, HTTP, HTTPS, WWW, HTTP \o WWW, HTTPS \o WWW}
SchemeOf(text) ==
    IF StartsWith(text, HTTPS) THEN HTTPS ELSE IF StartsWith(text, HTTP) THEN HTTP ELSE <<>>

(* C21: the card has a website anchor exactly when websiteLink is           *)
(* non-empty; the anchor's href is websiteLink as it is; its text is        *)
(* websiteLink without one leading "http://" or "https://" and one "www."   *)
(* right after it, when they are there, and with every other character      *)
(* kept in place.                                                           *)
C21_WebsiteAnchorTextStripsPrefix ==
    (eventCard # <<>> /\ eventCard[1].version = "current") =>
        LET frontmatter == eventCard[1].props
            card        == eventCard[1].output
            hasSite     == frontmatter.websiteLink \notin {Undefined, Some(<<>>)}
        IN  /\ hasSite <=> (card.website # <<>>)
            /\ hasSite =>
                LET site    == frontmatter.websiteLink[1]
                    text    == card.website[1].text
                    removed == SubSeq(site, 1, Len(site) - Len(text))
                    scheme  == SchemeOf(site)
                IN  /\ card.website[1].href = site
                    /\ Len(text) <= Len(site)
                    /\ site = removed \o text
                    /\ removed \in RemovablePrefixes
                    /\ StartsWith(removed, scheme)
                    /\ StartsWith(Drop(site, Len(scheme)), WWW)
                            <=> (removed = scheme \o WWW)

(* A card for a site given as https://www.devsum.se: the text is devsum.se *)
C21_Witness ==
    /\ eventCard # <<>>
    /\ eventCard[1].version = "current"
    /\ eventCard[1].props.websiteLink = Some(SiteWithWww)
    /\ eventCard[1].output.website[1].href = SiteWithWww
    /\ eventCard[1].output.website[1].text
            = <<"d", "e", "v", "s", "u", "m", ".", "s", "e">>

--------------------------------------------------------------------------
(* The elements of the themed post image *)

(* C22: an image of the themed post template always has the title element   *)
(* with the post's title and the "Blog Post" badge; it has the description  *)
(* paragraph exactly when the post's description is non-empty, and the date *)
(* exactly when the post has a pubDate; a post with a pubDatetime and no    *)
(* pubDate gets no date.                                                    *)
C22_ThemedImageElements ==
    (ogLast # <<>> /\ ogLast[1].template = "postOgImage") =>
        LET post  == ogLast[1].input[1]
            theme == ogLast[1].input[2]
            image == ogLast[1].output
        IN  /\ image.title.text = post.title
            /\ image.title.color = theme.text
            /\ image.badge.text = "Blog Post"
            /\ image.badge.background = theme.primary
            /\ (image.description # Undefined)
                    <=> (post.description \notin {Undefined, Some("")})
            /\ image.description # Undefined =>
                    image.description[1].text = post.description[1]
            /\ (image.date # Undefined) <=> (post.pubDate # Undefined)
            /\ (post.pubDate = Undefined /\ post.pubDatetime = 23) =>
                    image.date = Undefined

(* A post with a title, an empty description and its date in pubDatetime only *)
C22_Witness ==
    /\ ogLast # <<>>
    /\ ogLast[1].template = "postOgImage"
    /\ ogLast[1].input[1].title = Some("Rebuilding Remix Contacts")
    /\ ogLast[1].input[1].description = Some("")
    /\ ogLast[1].input[1].pubDate = Undefined
    /\ ogLast[1].input[1].pubDatetime = 23
    /\ ogLast[1].output.badge.text = "Blog Post"
    /\ ogLast[1].output.description = Undefined
    /\ ogLast[1].output.date = Undefined

====
